---- MODULE Spec2Model ----
(***************************************************************************)
(* A model of src/src/data_utils/data_processing.py: the derivation of the *)
(* DELPHI parameter tensors and of the vaccine parameters from the input   *)
(* tables.                                                                 *)
(*                                                                         *)
(* Every function of the module is a call: it starts in pc = "idle" on     *)
(* input tables drawn by Init, runs through the positions of its code and  *)
(* ends in pc = "returned" (with `result`) or pc = "raised" (with the      *)
(* exception in `raised`).                                                 *)
(*                                                                         *)
(* Numbers.  Floating-point values are modelled by exact fractions         *)
(* [n |-> numerator, d |-> denominator]; a denominator of 0 is the result  *)
(* of a division by zero (numpy's nan for 0/0, inf for x/0, which it       *)
(* returns with a warning and without raising) and every operation on such *)
(* a value yields such a value again.  Rounding is not modelled.           *)
(*                                                                         *)
(* Region labels are modelled by naturals, the rank of the label in        *)
(* alphabetical order, so that sort_values("state") is a sort by number.   *)
(***************************************************************************)
EXTENDS Integers, Sequences, FiniteSets, TLC

VARIABLES
    pop_df,                  \* argument: the population table
    cdc_df,                  \* argument: the clinical aggregate table
    params_df,               \* argument: the intervention parameter table
    predictions_df,          \* argument: the trajectory table
    vargs,                   \* arguments of get_vaccine_params
    fn,                      \* the function that was called
    pc,                      \* the position in its code
    j,                       \* the index of the running per-region loop (1-based)
    states,                  \* local `states` of get_mortality_rate_estimates
    population,              \* local `population`
    hospitalization_rate,    \* local `hospitalization_rate`
    baseline_mortality_rate, \* local `baseline_mortality_rate`
    mortality_rate,          \* local `mortality_rate`
    filled,                  \* regions whose slice mortality_rate[j,:,:] was assigned
    policy_response,         \* local `policy_response`
    initial_conditions_df,   \* local `initial_conditions_df`
    initial,                 \* locals initial_susceptible / _exposed / _infectious
    result,                  \* the value the call returned
    raised                   \* the exception the call ended in, "" if none

vars == <<pop_df, cdc_df, params_df, predictions_df, vargs, fn, pc, j, states,
          population, hospitalization_rate, baseline_mortality_rate,
          mortality_rate, filled, policy_response, initial_conditions_df,
          initial, result, raised>>

----------------------------------------------------------------------------
(* Bounds of the model *)

\* rows of the population table handed to the aggregator alone
MaxPopRows == 2
\* largest population of one row of the population table
MaxPop == 2
\* rows of the trajectory table
MaxPredRows == 2
\* rows of the clinical aggregate table
MaxCdcRows == 2
\* largest total_pop handed to get_vaccine_params
MaxTotalPop == 3

----------------------------------------------------------------------------
(* Numbers *)

Rat(n, d) == [n |-> n, d |-> d]
RInt(i) == Rat(i, 1)
RIsNumber(a) == a.d # 0
Abs(i) == IF i < 0 THEN -i ELSE i
RECURSIVE GCD(_, _)
GCD(a, b) == IF b = 0 THEN a ELSE GCD(b, a % b)
\* the fraction in lowest terms with a positive denominator; n / 0 is
\* nan (0 / 0), inf (1 / 0) or -inf (-1 / 0)
Reduced(n, d) ==
    IF d = 0 THEN Rat(IF n = 0 THEN 0 ELSE IF n > 0 THEN 1 ELSE -1, 0)
    ELSE LET g == GCD(Abs(n), Abs(d))
             sign == IF d < 0 THEN -1 ELSE 1
         IN  Rat(sign * (n \div g), sign * (d \div g))
RMul(a, b) == Reduced(a.n * b.n, a.d * b.d)
RAdd(a, b) == Reduced(a.n * b.d + b.n * a.d, a.d * b.d)
RSub(a, b) == Reduced(a.n * b.d - b.n * a.d, a.d * b.d)
\* a / b for numbers; x / 0 is inf or nan, both of denominator 0
RDiv(a, b) == Reduced(a.n * b.d, a.d * b.n)
\* == on floats: nan equals nothing
REq(a, b) == RIsNumber(a) /\ RIsNumber(b) /\ a.n * b.d = b.n * a.d

----------------------------------------------------------------------------
(* Tables (pandas DataFrame): the set of column labels and the rows.       *)

Table(cols, rows) == [columns |-> cols, rows |-> rows]
HasColumn(df, c) == c \in df.columns
Column(df, c) == [i \in 1..Len(df.rows) |-> df.rows[i][c]]

\* Series.unique(): the values in order of first appearance
RECURSIVE Unique(_)
Unique(s) ==
    IF s = <<>> THEN <<>>
    ELSE LET r == Unique(SubSeq(s, 1, Len(s) - 1))
             x == s[Len(s)]
         IN  IF \E i \in 1..Len(r) : r[i] = x THEN r ELSE Append(r, x)

\* rows[c].sum()
RECURSIVE SumColumn(_, _)
SumColumn(rows, c) ==
    IF rows = <<>> THEN 0 ELSE rows[1][c] + SumColumn(Tail(rows), c)

\* all sequences over S of length at most n
SeqsUpTo(S, n) == UNION {[1..m -> S] : m \in 0..n}

----------------------------------------------------------------------------
(* data_utils/constants.py *)

N_REGIONS == 2
N_TIMESTEPS == 2
RISK_CLASSES ==
    << [min_age |-> 0, max_age |-> 49], [min_age |-> 50, max_age |-> 120] >>
N_RISK_CLASSES == Len(RISK_CLASSES)

----------------------------------------------------------------------------
(* get_population_by_state_and_risk_class *)

\* the containment test of an age band in a risk class, with the bounds swapped
InRiskClassOverlap(row, risk_class) ==
    /\ row.min_age <= risk_class.max_age
    /\ row.max_age >= risk_class.min_age

InRiskClass(row, risk_class) ==
    /\ row.min_age >= risk_class.min_age
    /\ row.max_age <= risk_class.max_age

get_population_by_state_and_risk_class(df) ==
    LET sts == Unique(Column(df, "state"))
    IN  [jj \in 1..Len(sts) |->
            [k \in 1..Len(RISK_CLASSES) |->
                SumColumn(SelectSeq(df.rows,
                              LAMBDA r : InRiskClass(r, RISK_CLASSES[k])
                                         /\ r.state = sts[jj]),
                          "population")]]

----------------------------------------------------------------------------
(* Inputs *)

\* region labels: one more than the tensors have rows, so that a table can
\* hold fewer regions than N_REGIONS, as many, and more
Regions == 1..(N_REGIONS + 1)
PopColumns == {"state", "min_age", "max_age", "population"}
\* age bands of population rows: inside a class, straddling the boundary of
\* the two classes, and reaching beyond the last class
Bands == {<<0, 17>>, <<18, 49>>, <<40, 59>>, <<50, 120>>}

PopRow(s, b, p) ==
    [state |-> s, min_age |-> b[1], max_age |-> b[2], population |-> p]
PopRows == {PopRow(s, b, p) : s \in Regions, b \in Bands, p \in 0..MaxPop}

NoTable == Table({}, <<>>)

InitLocals ==
    /\ fn = "" /\ pc = "idle" /\ j = 0 /\ states = <<>>
    /\ population = <<>> /\ hospitalization_rate = <<>>
    /\ baseline_mortality_rate = <<>> /\ mortality_rate = <<>>
    /\ filled = {} /\ policy_response = <<>>
    /\ initial_conditions_df = <<>> /\ initial = <<>>
    /\ result = <<>> /\ raised = ""

locals == <<j, states, population, hospitalization_rate,
            baseline_mortality_rate, mortality_rate, filled, policy_response,
            initial_conditions_df, initial>>
args == <<pop_df, cdc_df, params_df, predictions_df, vargs>>

----------------------------------------------------------------------------
(* The population aggregator called on its own *)

InitPopulation ==
    /\ pop_df \in {Table(PopColumns, rows) : rows \in SeqsUpTo(PopRows, MaxPopRows)}
    /\ cdc_df = NoTable /\ params_df = NoTable /\ predictions_df = NoTable
    /\ vargs = <<>>
    /\ InitLocals

CallPopulation ==
    /\ pc = "idle"
    /\ fn' = "get_population_by_state_and_risk_class"
    /\ result' = get_population_by_state_and_risk_class(pop_df)
    /\ pc' = "returned"
    /\ UNCHANGED <<args, locals, raised>>

SpecPopulation == InitPopulation /\ [][CallPopulation]_vars

\* the population rows of region s
RowsOfRegion(s) == SelectSeq(pop_df.rows, LAMBDA r : r.state = s)
Ages(lo, hi) == lo..hi
\* the age band of the row lies within the ages of the class
BandWithin(row, risk_class) ==
    Ages(row.min_age, row.max_age)
        \subseteq Ages(risk_class.min_age, risk_class.max_age)
RECURSIVE SumSeq(_)
SumSeq(s) == IF s = <<>> THEN 0 ELSE s[1] + SumSeq(Tail(s))
PopulationReturned ==
    fn = "get_population_by_state_and_risk_class" /\ pc = "returned"

\* C2: the aggregator returns one row per region of the table in order of
\* first appearance; cell (j,k) is the sum of `population` over the rows of
\* region j whose age band lies within class k; a row that lies within no
\* class adds to no cell; every cell is >= 0 and every row sum is at most the
\* region's total population in the table.
C2_PopulationMatrix ==
    PopulationReturned =>
        LET sts == Unique(Column(pop_df, "state"))
        IN  /\ DOMAIN result = 1..Len(sts)
            /\ \A jj \in 1..Len(sts) :
                 LET rows == RowsOfRegion(sts[jj])
                     within(k) ==
                         [i \in 1..Len(rows) |->
                             IF BandWithin(rows[i], RISK_CLASSES[k])
                             THEN rows[i].population ELSE 0]
                     inSome ==
                         [i \in 1..Len(rows) |->
                             IF \E k \in 1..N_RISK_CLASSES :
                                    BandWithin(rows[i], RISK_CLASSES[k])
                             THEN rows[i].population ELSE 0]
                 IN  /\ DOMAIN result[jj] = 1..N_RISK_CLASSES
                     /\ \A k \in 1..N_RISK_CLASSES :
                          /\ result[jj][k] = SumSeq(within(k))
                          /\ result[jj][k] >= 0
                     /\ SumSeq(result[jj]) = SumSeq(inSome)
                     /\ SumSeq(result[jj]) <= SumColumn(rows, "population")

\* a region with a straddling row of non-zero population and a row inside a
\* class has been aggregated
C2_Witness ==
    /\ PopulationReturned
    /\ \E i, i2 \in 1..Len(pop_df.rows) :
         /\ pop_df.rows[i].population > 0
         /\ pop_df.rows[i].min_age = 40
         /\ pop_df.rows[i2].population > 0
         /\ pop_df.rows[i2].min_age = 50
         /\ pop_df.rows[i2].state = pop_df.rows[i].state
         /\ result[1][2] > 0

----------------------------------------------------------------------------
(* get_hospitalization_rate_by_risk_class, get_baseline_mortality_rate_estimates *)

CdcInClass(df, k) ==
    SelectSeq(df.rows, LAMBDA r : InRiskClass(r, RISK_CLASSES[k]))

\* the division of two column sums: numpy scalars, so x / 0 raises nothing
get_hospitalization_rate_by_risk_class(df) ==
    [k \in 1..N_RISK_CLASSES |->
        LET cases == SumColumn(CdcInClass(df, k), "cases")
            hospitalizations == SumColumn(CdcInClass(df, k), "hospitalizations")
        IN  RDiv(RInt(hospitalizations), RInt(cases))]

get_baseline_mortality_rate_estimates(df) ==
    [k \in 1..N_RISK_CLASSES |->
        LET cases == SumColumn(CdcInClass(df, k), "cases")
            deaths == SumColumn(CdcInClass(df, k), "deaths")
        IN  RDiv(RInt(deaths), RInt(cases))]

CdcColumns == {"min_age", "max_age", "cases", "hospitalizations", "deaths"}
CdcBands == {<<0, 49>>, <<40, 59>>, <<50, 120>>}
\* <<cases, hospitalizations, deaths>> of a row; <<0, 1, 1>> is the malformed
\* row the code does not reject
CdcCounts == {<<0, 0, 0>>, <<0, 1, 1>>, <<2, 1, 0>>, <<2, 0, 1>>, <<4, 1, 1>>}
CdcRow(b, c) ==
    [min_age |-> b[1], max_age |-> b[2],
     cases |-> c[1], hospitalizations |-> c[2], deaths |-> c[3]]
CdcRows == {CdcRow(b, c) : b \in CdcBands, c \in CdcCounts}

InitClinical ==
    /\ cdc_df \in {Table(CdcColumns, rows) : rows \in SeqsUpTo(CdcRows, MaxCdcRows)}
    /\ pop_df = NoTable /\ params_df = NoTable /\ predictions_df = NoTable
    /\ vargs = <<>>
    /\ InitLocals

CallHospitalizationRate ==
    /\ pc = "idle"
    /\ fn' = "get_hospitalization_rate_by_risk_class"
    /\ result' = get_hospitalization_rate_by_risk_class(cdc_df)
    /\ pc' = "returned"
    /\ UNCHANGED <<args, locals, raised>>

CallBaselineMortalityRate ==
    /\ pc = "idle"
    /\ fn' = "get_baseline_mortality_rate_estimates"
    /\ result' = get_baseline_mortality_rate_estimates(cdc_df)
    /\ pc' = "returned"
    /\ UNCHANGED <<args, locals, raised>>

NextClinical == CallHospitalizationRate \/ CallBaselineMortalityRate
SpecClinical == InitClinical /\ [][NextClinical]_vars

ClinicalEnded ==
    /\ fn \in {"get_hospitalization_rate_by_risk_class",
               "get_baseline_mortality_rate_estimates"}
    /\ pc \in {"returned", "raised"}
ZeroCaseClasses ==
    {k \in 1..N_RISK_CLASSES : SumColumn(CdcInClass(cdc_df, k), "cases") = 0}

----------------------------------------------------------------------------
(* get_vaccine_params *)

\* Optional[...] arguments: <<>> is None, <<x>> is x
None == <<>>
Some(x) == <<x>>
\* Python's truth value of an Optional[float]: None and 0.0 are false
Truthy(opt) == opt # None /\ opt[1].n # 0
\* Python's truth value of an Optional[List[int]]: None and [] are false
TruthyList(opt) == opt # None /\ opt[1] # <<>>

get_vaccine_params(a) ==
    [vaccine_effectiveness |-> a.vaccine_effectiveness,
     vaccine_budget |->
        [t \in 1..N_TIMESTEPS |-> RMul(RInt(a.total_pop), a.vaccine_budget_pct)],
     max_total_capacity |->
        RMul(IF Truthy(a.max_total_capacity_pct)
             THEN a.max_total_capacity_pct[1] ELSE a.vaccine_budget_pct,
             RInt(a.total_pop)),
     max_allocation_pct |-> a.max_allocation_pct,
     min_allocation_pct |-> a.min_allocation_pct,
     max_decrease_pct |-> a.max_decrease_pct,
     max_increase_pct |-> a.max_increase_pct,
     optimize_capacity |-> a.optimize_capacity,
     excluded_risk_classes |->
        IF TruthyList(a.excluded_risk_classes)
        THEN a.excluded_risk_classes[1] ELSE <<>>]

\* percentages, in tenths
Pcts == {Rat(0, 10), Rat(1, 10), Rat(5, 10), Rat(10, 10)}

InitVaccine ==
    /\ \E tp \in 0..MaxTotalPop, b \in Pcts,
          c \in {None} \cup {Some(x) : x \in Pcts} :
         vargs = [total_pop |-> tp,
                  vaccine_effectiveness |-> Rat(9, 10),
                  vaccine_budget_pct |-> b,
                  max_allocation_pct |-> Rat(10, 10),
                  min_allocation_pct |-> Rat(0, 10),
                  max_decrease_pct |-> Rat(1, 10),
                  max_increase_pct |-> Rat(1, 10),
                  max_total_capacity_pct |-> c,
                  optimize_capacity |-> FALSE,
                  excluded_risk_classes |-> None]
    /\ pop_df = NoTable /\ cdc_df = NoTable
    /\ params_df = NoTable /\ predictions_df = NoTable
    /\ InitLocals

CallVaccineParams ==
    /\ pc = "idle"
    /\ fn' = "get_vaccine_params"
    /\ result' = get_vaccine_params(vargs)
    /\ pc' = "returned"
    /\ UNCHANGED <<args, locals, raised>>

SpecVaccine == InitVaccine /\ [][CallVaccineParams]_vars

VaccineReturned == fn = "get_vaccine_params" /\ pc = "returned"

\* C10: max_total_capacity is total_pop * max_total_capacity_pct whenever a
\* capacity percentage is passed (0 included) and total_pop *
\* vaccine_budget_pct only when none is passed; vaccine_budget has
\* N_TIMESTEPS entries, each total_pop * vaccine_budget_pct.
C10_VaccineCapacity ==
    VaccineReturned =>
        LET budget == RMul(RInt(vargs.total_pop), vargs.vaccine_budget_pct)
        IN  /\ DOMAIN result.vaccine_budget = 1..N_TIMESTEPS
            /\ \A t \in 1..N_TIMESTEPS : REq(result.vaccine_budget[t], budget)
            /\ IF vargs.max_total_capacity_pct = None
               THEN REq(result.max_total_capacity, budget)
               ELSE REq(result.max_total_capacity,
                        RMul(RInt(vargs.total_pop),
                             vargs.max_total_capacity_pct[1]))

----------------------------------------------------------------------------
(* numpy arrays of three axes: the shape and the function of the indices.  *)

Idx(shape) == (1..shape[1]) \X (1..shape[2]) \X (1..shape[3])
\* the index a broadcast reads: an axis of length 1 is read at 1
Clip(idx, shape) == [i \in 1..3 |-> IF shape[i] = 1 THEN 1 ELSE idx[i]]
BroadcastShape(s1, s2) == [i \in 1..3 |-> IF s1[i] = 1 THEN s2[i] ELSE s1[i]]
\* A[idx] as a broadcast against a larger array reads it
At(A, idx) == A.at[Clip(idx, A.shape)]
\* c * A for a scalar c
ScalarTimes(c, A) ==
    [shape |-> A.shape, at |-> [idx \in Idx(A.shape) |-> RMul(c, A.at[idx])]]
\* 1 - A
OneMinus(A) ==
    [shape |-> A.shape,
     at |-> [idx \in Idx(A.shape) |-> RSub(RInt(1), A.at[idx])]]
\* A * B under numpy's broadcasting
Times(A, B) ==
    LET shape == BroadcastShape(A.shape, B.shape)
    IN  [shape |-> shape,
         at |-> [idx \in Idx(shape) |-> RMul(At(A, idx), At(B, idx))]]
\* A + B under numpy's broadcasting
Plus(A, B) ==
    LET shape == BroadcastShape(A.shape, B.shape)
    IN  [shape |-> shape,
         at |-> [idx \in Idx(shape) |-> RAdd(At(A, idx), At(B, idx))]]

FullShape == <<N_REGIONS, N_RISK_CLASSES, N_TIMESTEPS>>

----------------------------------------------------------------------------
(* data_utils/constants.py, continued *)

\* np.log(2), to one digit
LN2 == Rat(7, 10)
MEDIAN_DETECTION_TIME == 2
DETECTION_PROBABILITY == Rat(1, 5)

----------------------------------------------------------------------------
(* models/mortality_rate_estimator.py: MortalityRateEstimator(...).solve() *)
(* returns for one region a (risk classes, timesteps) array of rates in    *)
(* [0, 1], or fails.                                                       *)

EstimatorSolutions ==
    { [kt \in (1..N_RISK_CLASSES) \X (1..N_TIMESTEPS) |-> Rat(1, 2)],
      [kt \in (1..N_RISK_CLASSES) \X (1..N_TIMESTEPS) |-> Rat(kt[1] + kt[2] - 2, 4)] }

\* what the memory np.ndarray(shape) hands out may hold
Uninitialized == {Rat(0, 1), Rat(7, 1), Rat(0, 0)}

----------------------------------------------------------------------------
(* get_policy_response_by_state_and_timestep *)

\* 1 + lockdown_curve + reopening_curve at timestep t: a function of the
\* parameters of the row, written as the term over the row it is computed from
PolicyCurve(row, t) == [of |-> row.state, t |-> t]
\* an entry np.zeros left as it was
PolicyZero(t) == [of |-> 0, t |-> t]

\* the loop writes row j of the result from the j-th row of params_df
get_policy_response_by_state_and_timestep(df) ==
    [jj \in 1..N_REGIONS |->
        [t \in 1..N_TIMESTEPS |->
            IF jj <= Len(df.rows) THEN PolicyCurve(df.rows[jj], t)
            ELSE PolicyZero(t)]]

----------------------------------------------------------------------------
(* get_delphi_params: the transition rates of the returned mapping *)

detection_rate == RDiv(LN2, RInt(MEDIAN_DETECTION_TIME))

ihd_transition_rate(h, m) ==
    Times(ScalarTimes(RMul(detection_rate, DETECTION_PROBABILITY), h), m)
ihr_transition_rate(h, m) ==
    Times(ScalarTimes(RMul(detection_rate, DETECTION_PROBABILITY), h), OneMinus(m))
iqd_transition_rate(h, m) ==
    Times(ScalarTimes(RMul(detection_rate, DETECTION_PROBABILITY), OneMinus(h)), m)
\* iqr with the hospitalized share in place of the non-hospitalized share
iqr_as_ihr(h, m) ==
    Times(ScalarTimes(RMul(detection_rate, DETECTION_PROBABILITY), h), OneMinus(m))
iqr_transition_rate(h, m) ==
    Times(ScalarTimes(RMul(detection_rate, DETECTION_PROBABILITY), OneMinus(h)),
          OneMinus(m))
iud_transition_rate(h, m) ==
    ScalarTimes(RMul(detection_rate, RSub(RInt(1), DETECTION_PROBABILITY)), h)
iur_transition_rate(h, m) ==
    ScalarTimes(RMul(detection_rate, RSub(RInt(1), DETECTION_PROBABILITY)),
                OneMinus(h))

----------------------------------------------------------------------------
(* Inputs of the pipeline *)

\* all sequences over S without a repetition
InjSeqs(S) ==
    {q \in SeqsUpTo(S, Cardinality(S)) :
        \A a, b \in 1..Len(q) : a # b => q[a] # q[b]}

\* the population rows of one region: one row in each risk class
RegionPopRows(s, cols, empty) ==
    LET row(b, p) ==
            IF "states" \in cols
            THEN [state |-> s, states |-> s, min_age |-> b[1],
                  max_age |-> b[2], population |-> p]
            ELSE PopRow(s, b, p)
    IN  << row(<<0, 17>>, IF empty THEN 0 ELSE 3),
           row(<<50, 120>>, IF empty THEN 0 ELSE 1) >>

RECURSIVE Concat(_)
Concat(ss) == IF ss = <<>> THEN <<>> ELSE ss[1] \o Concat(Tail(ss))

\* a population table of the regions of `order`, the regions of `zero`
\* having no inhabitants; with `cols` the table names its region column twice
PipelinePopTable(order, zero, cols) ==
    Table(cols,
          Concat([i \in 1..Len(order) |->
                     RegionPopRows(order[i], cols, order[i] \in zero)]))

PipelinePopTables ==
    {PipelinePopTable(order, zero, cols) :
        order \in InjSeqs(Regions),
        zero \in {{}, {1}},
        cols \in {PopColumns, PopColumns \cup {"states"}}}

ParamsColumns ==
    {"start_date", "intervention_time", "intervention_rate", "jump_time",
     "jump_magnitude", "jump_decay", "infection_rate"}
\* one row per region, indexed by the region label
ParamsRow(s) == [state |-> s, infection_rate |-> Rat(s, 10)]
ParamsTables ==
    {Table(ParamsColumns, [i \in 1..Len(order) |-> ParamsRow(order[i])]) :
        order \in InjSeqs(Regions)}

PredColumns ==
    {"date", "state", "susceptible", "exposed", "infected", "deceased"}
\* the day the pipeline starts at; dates are days
start_date == 0
PredRow(d, s) ==
    [date |-> d, state |-> s, susceptible |-> 6 * s + d, exposed |-> 4 * s + d,
     infected |-> 2 * s + d, deceased |-> s + d]
PredRows == {PredRow(d, s) : d \in {start_date, start_date + 1}, s \in Regions}
PredTables ==
    {Table(PredColumns, rows) : rows \in SeqsUpTo(PredRows, MaxPredRows)}
DefaultPredTable ==
    Table(PredColumns,
          << PredRow(start_date, 1), PredRow(start_date + 1, 1),
             PredRow(start_date, 2), PredRow(start_date + 1, 2) >>)

\* clinical tables of one row per risk class
PipelineCdcTables ==
    {Table(CdcColumns, << CdcRow(<<0, 49>>, c1), CdcRow(<<50, 120>>, c2) >>) :
        c1 \in {<<4, 1, 2>>}, c2 \in {<<4, 2, 3>>, <<0, 0, 0>>}}
DefaultCdcTable ==
    Table(CdcColumns, << CdcRow(<<0, 49>>, <<4, 1, 2>>),
                         CdcRow(<<50, 120>>, <<4, 2, 3>>) >>)
DefaultParamsTable == Table(ParamsColumns, << ParamsRow(1), ParamsRow(2) >>)

\* the arguments of get_initial_conditions vary
InitInitialConditions ==
    /\ pop_df \in PipelinePopTables
    /\ predictions_df \in PredTables
    /\ cdc_df = DefaultCdcTable /\ params_df = DefaultParamsTable

\* the arguments of get_delphi_params vary
InitDelphiParams ==
    /\ pop_df \in PipelinePopTables
    /\ params_df \in ParamsTables
    /\ cdc_df \in PipelineCdcTables
    /\ predictions_df = DefaultPredTable

Init ==
    /\ InitInitialConditions \/ InitDelphiParams
    /\ vargs = <<>>
    /\ InitLocals

Raise(e) == pc' = "raised" /\ raised' = e

----------------------------------------------------------------------------
(* get_initial_conditions *)

\* the columns selected into initial_conditions_df
IcColumns == {"susceptible", "exposed", "infected"}

\* the orders sort_values("state") may put the rows in (its default sort
\* keeps no order among equal labels)
SortedByState(rows) ==
    LET n == Len(rows)
        perms == {q \in [1..n -> 1..n] :
                     /\ \A a, b \in 1..n : a # b => q[a] # q[b]
                     /\ \A a, b \in 1..n :
                          a < b => rows[q[a]].state <= rows[q[b]].state}
    IN  {[i \in 1..n |-> rows[q[i]]] : q \in perms}

\* the row restricted to the columns `cols`
Selected(row, cols) == [c \in cols |-> row[c]]

Zeros(n) == [jj \in 1..n |-> [k \in 1..N_RISK_CLASSES |-> RInt(0)]]

IC_Begin ==
    /\ pc = "idle"
    /\ fn' = "get_initial_conditions"
    /\ LET pop == get_population_by_state_and_risk_class(pop_df)
       IN  /\ population' = pop
           /\ initial' = [initial_susceptible |-> Zeros(Len(pop)),
                          initial_exposed |-> Zeros(Len(pop)),
                          initial_infectious |-> Zeros(Len(pop))]
    /\ \E sorted \in SortedByState(SelectSeq(predictions_df.rows,
                                             LAMBDA r : r.date = start_date)) :
         initial_conditions_df' =
             Table(IcColumns,
                   [i \in 1..Len(sorted) |-> Selected(sorted[i], IcColumns)])
    /\ j' = 1
    /\ pc' = "ic_loop"
    /\ UNCHANGED <<args, states, hospitalization_rate, baseline_mortality_rate,
                   mortality_rate, filled, policy_response, result, raised>>

\* population[j, :] / population[j, :].sum()
pop_proportions(pop, jj) ==
    [k \in 1..N_RISK_CLASSES |->
        RDiv(RInt(pop[jj][k]), RInt(SumSeq(pop[jj])))]

Apportion(count, proportions) ==
    [k \in 1..N_RISK_CLASSES |-> RMul(RInt(count), proportions[k])]

\* one pass of the loop over the rows of initial_conditions_df
IC_Iter ==
    /\ pc = "ic_loop"
    /\ j <= Len(initial_conditions_df.rows)
    /\ LET state == initial_conditions_df.rows[j]
       IN  IF j > Len(population)
           THEN /\ Raise("IndexError")
                /\ UNCHANGED <<j, initial>>
           ELSE LET prop == pop_proportions(population, j)
                    sus == [initial EXCEPT
                              !.initial_susceptible[j] =
                                  Apportion(state["susceptible"], prop)]
                    exp == [sus EXCEPT
                              !.initial_exposed[j] =
                                  Apportion(state["exposed"], prop)]
                IN  IF ~HasColumn(initial_conditions_df, "infectious")
                    THEN /\ initial' = exp
                         /\ Raise("KeyError")
                         /\ UNCHANGED j
                    ELSE /\ initial' =
                              [exp EXCEPT
                                 !.initial_infectious[j] =
                                     Apportion(state["infectious"], prop)]
                         /\ j' = j + 1
                         /\ UNCHANGED <<pc, raised>>
    /\ UNCHANGED <<args, fn, states, population, hospitalization_rate,
                   baseline_mortality_rate, mortality_rate, filled,
                   policy_response, initial_conditions_df, result>>

IC_Return ==
    /\ pc = "ic_loop"
    /\ j > Len(initial_conditions_df.rows)
    /\ result' = [initial_susceptible |-> initial.initial_susceptible,
                  initial_exposed |-> initial.initial_exposed,
                  initial_infectious |-> initial.initial_infectious,
                  initial_hospitalized_dying |-> Zeros(Len(population)),
                  initial_hospitalized_recovering |-> Zeros(Len(population)),
                  initial_quarantined_dying |-> Zeros(Len(population)),
                  initial_quarantined_recovering |-> Zeros(Len(population)),
                  initial_undetected_dying |-> Zeros(Len(population)),
                  initial_undetected_recovering |-> Zeros(Len(population)),
                  initial_recovered |-> Zeros(Len(population)),
                  population |-> population]
    /\ pc' = "returned"
    /\ UNCHANGED <<args, fn, locals, raised>>

----------------------------------------------------------------------------
(* get_mortality_rate_estimates *)

M_Call ==
    /\ pc = "idle"
    /\ fn' = "get_mortality_rate_estimates"
    /\ pc' = "mort_begin"
    /\ UNCHANGED <<args, locals, result, raised>>

\* lines 67-70: the locals before the loop
M_Begin ==
    /\ pc = "mort_begin"
    /\ population' = get_population_by_state_and_risk_class(pop_df)
    /\ baseline_mortality_rate' = get_baseline_mortality_rate_estimates(cdc_df)
    /\ IF ~HasColumn(pop_df, "states")
       THEN /\ Raise("KeyError")
            /\ UNCHANGED <<states, mortality_rate, j>>
       ELSE /\ states' = Unique(Column(pop_df, "states"))
            /\ \E g \in Uninitialized :
                 mortality_rate' =
                     [shape |-> FullShape, at |-> [idx \in Idx(FullShape) |-> g]]
            /\ j' = 1
            /\ pc' = "mort_loop"
            /\ UNCHANGED raised
    /\ UNCHANGED <<args, fn, hospitalization_rate, filled, policy_response,
                   initial_conditions_df, initial, result>>

\* one pass of the loop over the regions: the estimator of region j is built
\* from population[j, :] and solved, and its solution stored in slice j
M_Iter ==
    /\ pc = "mort_loop"
    /\ j <= Len(states)
    /\ IF j > Len(population)
       THEN /\ Raise("IndexError")
            /\ UNCHANGED <<j, mortality_rate, filled>>
       ELSE \/ /\ Raise("EstimationFailure")
               /\ UNCHANGED <<j, mortality_rate, filled>>
            \/ \E solution \in EstimatorSolutions :
                 IF j > N_REGIONS
                 THEN /\ Raise("IndexError")
                      /\ UNCHANGED <<j, mortality_rate, filled>>
                 ELSE /\ mortality_rate' =
                           [mortality_rate EXCEPT
                              !.at = [idx \in Idx(FullShape) |->
                                         IF idx[1] = j
                                         THEN solution[<<idx[2], idx[3]>>]
                                         ELSE @[idx]]]
                      /\ filled' = filled \cup {j}
                      /\ j' = j + 1
                      /\ UNCHANGED <<pc, raised>>
    /\ UNCHANGED <<args, fn, states, population, hospitalization_rate,
                   baseline_mortality_rate, policy_response,
                   initial_conditions_df, initial, result>>

\* the loop is over: get_mortality_rate_estimates returns mortality_rate
M_Return ==
    /\ pc = "mort_loop"
    /\ j > Len(states)
    /\ IF fn = "get_mortality_rate_estimates"
       THEN /\ result' = mortality_rate
            /\ pc' = "returned"
       ELSE /\ pc' = "assemble"
            /\ UNCHANGED result
    /\ UNCHANGED <<args, fn, locals, raised>>

----------------------------------------------------------------------------
(* get_delphi_params *)

\* lines 136-139
D_PolicyResponse ==
    /\ pc = "idle"
    /\ fn' = "get_delphi_params"
    /\ IF Len(params_df.rows) > N_REGIONS
       THEN /\ Raise("IndexError")
            /\ UNCHANGED policy_response
       ELSE /\ policy_response' =
                 get_policy_response_by_state_and_timestep(params_df)
            /\ pc' = "hosp"
            /\ UNCHANGED raised
    /\ UNCHANGED <<args, j, states, population, hospitalization_rate,
                   baseline_mortality_rate, mortality_rate, filled,
                   initial_conditions_df, initial, result>>

\* hospitalization_rate[None, :, None]
Reshaped(rate) ==
    [shape |-> <<1, N_RISK_CLASSES, 1>>,
     at |-> [idx \in Idx(<<1, N_RISK_CLASSES, 1>>) |-> rate[idx[2]]]]

\* lines 142-143; line 146 calls get_mortality_rate_estimates
D_HospitalizationRate ==
    /\ pc = "hosp"
    /\ hospitalization_rate' =
           Reshaped(get_hospitalization_rate_by_risk_class(cdc_df))
    /\ pc' = "mort_begin"
    /\ UNCHANGED <<args, fn, j, states, population, baseline_mortality_rate,
                   mortality_rate, filled, policy_response,
                   initial_conditions_df, initial, result, raised>>

\* lines 155-178, the entries of the mapping that depend on the tables
D_Return ==
    /\ pc = "assemble"
    /\ result' =
         [infection_rate |-> Column(params_df, "infection_rate"),
          policy_response |-> policy_response,
          detection_rate |-> detection_rate,
          ihd_transition_rate |-> ihd_transition_rate(hospitalization_rate, mortality_rate),
          ihr_transition_rate |-> ihr_transition_rate(hospitalization_rate, mortality_rate),
          iqd_transition_rate |-> iqd_transition_rate(hospitalization_rate, mortality_rate),
          iqr_transition_rate |-> iqr_transition_rate(hospitalization_rate, mortality_rate),
          iud_transition_rate |-> iud_transition_rate(hospitalization_rate, mortality_rate),
          iur_transition_rate |-> iur_transition_rate(hospitalization_rate, mortality_rate),
          mortality_rate |-> mortality_rate]
    /\ pc' = "returned"
    /\ UNCHANGED <<args, fn, locals, raised>>

Next ==
    \/ IC_Begin \/ IC_Iter \/ IC_Return
    \/ M_Call \/ M_Begin \/ M_Iter \/ M_Return
    \/ D_PolicyResponse \/ D_HospitalizationRate \/ D_Return

Spec == Init /\ [][Next]_vars

----------------------------------------------------------------------------
(* Properties of the pipeline *)

Ended == pc \in {"returned", "raised"}
DelphiReturned == fn = "get_delphi_params" /\ pc = "returned"
\* the regions of the population table in order of first appearance
PopRegions == Unique(Column(pop_df, "state"))
SeqRange(q) == {q[i] : i \in 1..Len(q)}
Min(a, b) == IF a < b THEN a ELSE b

DetectedRate == RMul(detection_rate, DETECTION_PROBABILITY)
UndetectedRate == RMul(detection_rate, RSub(RInt(1), DETECTION_PROBABILITY))

\* the cell is computed from a hospitalization rate and a mortality rate
\* that are numbers
NumericCell(idx) ==
    /\ RIsNumber(At(hospitalization_rate, idx))
    /\ RIsNumber(At(mortality_rate, idx))

\* the estimator filled every slice of mortality_rate
AllSlicesEstimated == filled = 1..N_REGIONS

WellFormedSnapshot ==
    /\ PopRegions # <<>>
    /\ \A s \in SeqRange(PopRegions) :
         /\ SumColumn(RowsOfRegion(s), "population") > 0
         /\ Cardinality({i \in 1..Len(predictions_df.rows) :
                            /\ predictions_df.rows[i].state = s
                            /\ predictions_df.rows[i].date = start_date}) = 1
    /\ \A i \in 1..Len(predictions_df.rows) :
         predictions_df.rows[i].state \in SeqRange(PopRegions)
\* the row of region s in the snapshot of the start date
SnapshotRow(s) ==
    CHOOSE r \in SeqRange(predictions_df.rows) :
        r.state = s /\ r.date = start_date
RECURSIVE RSum(_)
RSum(q) == IF q = <<>> THEN RInt(0) ELSE RAdd(q[1], RSum(Tail(q)))

\* C3: get_initial_conditions returns arrays in which, for every region j of
\* non-zero population, initial_susceptible[j, :] sums to the susceptible
\* count of region j at start_date, and likewise initial_exposed and
\* initial_infectious for the exposed and infected counts.
C3_ApportionedSums ==
    (fn = "get_initial_conditions" /\ Ended /\ WellFormedSnapshot) =>
        /\ pc = "returned"
        /\ \A jj \in 1..Len(PopRegions) :
             LET row == SnapshotRow(PopRegions[jj])
             IN  /\ REq(RSum(result.initial_susceptible[jj]), RInt(row.susceptible))
                 /\ REq(RSum(result.initial_exposed[jj]), RInt(row.exposed))
                 /\ REq(RSum(result.initial_infectious[jj]), RInt(row.infected))

\* C4: row j of policy_response and slice j of mortality_rate in the returned
\* mapping belong to the j-th region of the population table in order of
\* first appearance, whatever the order of the rows of the parameter table.
C4_RegionOrder ==
    (/\ DelphiReturned
     /\ SeqRange(Column(params_df, "state")) = SeqRange(PopRegions)) =>
        \A jj \in 1..Len(PopRegions) :
            /\ states[jj] = PopRegions[jj]
            /\ \A t \in 1..N_TIMESTEPS :
                 result.policy_response[jj][t].of = PopRegions[jj]

\* C5: on tables of exactly the declared columns neither
\* get_initial_conditions nor get_mortality_rate_estimates (called directly or
\* by get_delphi_params) ends in a missing-column error.
C5_NoMissingColumn ==
    (/\ pop_df.columns = PopColumns
     /\ predictions_df.columns = PredColumns
     /\ fn \in {"get_initial_conditions", "get_mortality_rate_estimates",
                "get_delphi_params"}) =>
        raised # "KeyError"

TransitionRates ==
    {"ihd_transition_rate", "ihr_transition_rate", "iqd_transition_rate",
     "iqr_transition_rate", "iud_transition_rate", "iur_transition_rate"}

\* C7: each of the six transition-rate tensors of the returned mapping has
\* the shape (regions, risk classes, timesteps).
C7_FullShape ==
    (DelphiReturned /\ AllSlicesEstimated) =>
        \A name \in TransitionRates :
            /\ result[name].shape = FullShape
            /\ DOMAIN result[name].at = Idx(FullShape)

\* C8: in every cell the undetected branch is split by the mortality rate:
\* iud = detection_rate * (1 - DETECTION_PROBABILITY) * mortality_rate and
\* iur = detection_rate * (1 - DETECTION_PROBABILITY) * (1 - mortality_rate).
C8_UndetectedSplit ==
    (DelphiReturned /\ AllSlicesEstimated) =>
        \A idx \in Idx(FullShape) :
            NumericCell(idx) =>
                LET m == At(mortality_rate, idx)
                IN  /\ REq(At(result.iud_transition_rate, idx),
                           RMul(UndetectedRate, m))
                    /\ REq(At(result.iur_transition_rate, idx),
                           RMul(UndetectedRate, RSub(RInt(1), m)))

\* C9: when the estimator of one region fails, every other region that has a
\* slice in mortality_rate is still processed and its slice filled.
C9_FailureIsPerRegion ==
    (/\ fn \in {"get_mortality_rate_estimates", "get_delphi_params"}
     /\ pc = "raised" /\ raised = "EstimationFailure") =>
        \A jj \in 1..Min(Len(states), N_REGIONS) : jj # j => jj \in filled

====
